---- MODULE Spec2Model ----
(***************************************************************************)
(* Model of vault_checker.py: the three item filters, the duplicate        *)
(* finder, the interactive merge and the driver that runs them in order.   *)
(*                                                                         *)
(* A JSON object is a record whose DOMAIN is the set of keys it has, so    *)
(* `"login" in item` is "login" \in DOMAIN item and a subscript of a       *)
(* missing key raises KeyError.  A JSON null is the value None.  A list is *)
(* a sequence.  A reference to an item dict held outside data["items"]     *)
(* (the tuples of find_items_with_duplicates) is the item's index in the   *)
(* list, which no longer changes once the filters have run.                *)
(***************************************************************************)
EXTENDS Integers, Sequences, FiniteSets, TLC

\* Longest data["items"] read from the file.
MaxItems == 3

\* JSON null / Python None.
None == "None"

VARIABLES
    items,    \* data["items"]
    merged,   \* the module-level set merged_items (ids)
    pc,       \* the statement of the driver (or the call) about to run
    exc,      \* "none", or the exception that ended the run
    dups,     \* items_with_duplicates: list of pairs of item references
    idx,      \* position of the driver's for loop in dups
    asked     \* the Confirm.ask calls so far: which pair, which answer

vars == <<items, merged, pc, exc, dups, idx, asked>>

----------------------------------------------------------------------------
(* Input documents *)

\* URI entries: x and y are URI strings, match is another attribute of the
\* entry; an entry may have an empty uri, a null uri or no uri key.
X0 == [uri |-> "x", match |-> 0]
X1 == [uri |-> "x", match |-> 1]
Y0 == [uri |-> "y", match |-> 0]
Y1 == [uri |-> "y", match |-> 1]
E0 == [uri |-> "", match |-> 0]
N0 == [uri |-> None, match |-> 0]
K0 == [match |-> 0]

\* Logins that pass all three filters.
GoodLogins ==
    { [username |-> "u", password |-> "p", uris |-> <<X0>>],
      [username |-> "u", password |-> "p", uris |-> <<X1, Y0>>],
      [username |-> "u", password |-> "p", uris |-> <<X0, Y1, X1>>],
      [username |-> "u", password |-> "p", uris |-> <<Y0, X0>>],
      [username |-> "v", password |-> "p", uris |-> <<X0>>],
      [username |-> "u", password |-> "q", uris |-> <<X0>>],
      [username |-> "", password |-> "p", uris |-> <<X0>>] }

\* Logins with a field unset, missing or empty.
DefectLogins ==
    { [username |-> None, password |-> "p", uris |-> <<X0>>],
      [password |-> "p", uris |-> <<X0>>],
      [username |-> "u", password |-> None, uris |-> <<X0>>],
      [username |-> "u", uris |-> <<X0>>],
      [username |-> "u", password |-> "p"],
      [username |-> "u", password |-> "p", uris |-> <<>>],
      [username |-> "u", password |-> "p", uris |-> <<E0, K0>>],
      [username |-> "u", password |-> "p", uris |-> <<N0, X0>>],
      [username |-> None, password |-> None, uris |-> <<E0>>] }

Logins == GoodLogins \cup DefectLogins

\* What an item holds besides its id: one of the logins, or no login.
Bodies == { [login |-> l] : l \in Logins } \cup { [name |-> "n"] }

\* The item with the id i and the body b.
MkItem(i, b) ==
    IF "login" \in DOMAIN b THEN [id |-> i, login |-> b.login] ELSE [id |-> i]

\* The document with the bodies d: the i-th item has the id i.
MkDoc(d) == [i \in DOMAIN d |-> MkItem(i, d[i])]

----------------------------------------------------------------------------
(* Python list and dict operations *)

\* list.remove(x): delete the first element equal to x.
RECURSIVE ListRemove(_, _)
ListRemove(s, x) ==
    IF s = <<>> THEN <<>>
    ELSE IF Head(s) = x THEN Tail(s)
    ELSE <<Head(s)>> \o ListRemove(Tail(s), x)

Has(obj, key) == key \in DOMAIN obj

----------------------------------------------------------------------------
(* remove_userless_item *)

\* The condition of line 17: "remove", "keep", or the exception it raises.
UserlessCond(item) ==
    IF ~Has(item, "login") THEN "keep"
    ELSE IF ~Has(item.login, "username") THEN "KeyError"
    ELSE IF item.login.username = None THEN "remove"
    ELSE "keep"

\* The for loop of lines 16-19 over the live list: i is the list iterator's
\* index (0-based count of elements already yielded).
RECURSIVE UserlessLoop(_, _)
UserlessLoop(its, i) ==
    IF i >= Len(its) THEN [items |-> its, exc |-> "none"]
    ELSE LET c == UserlessCond(its[i + 1]) IN
         IF c = "KeyError" THEN [items |-> its, exc |-> "KeyError"]
         ELSE IF c = "remove" THEN UserlessLoop(ListRemove(its, its[i + 1]), i + 1)
         ELSE UserlessLoop(its, i + 1)

remove_userless_item(its) == UserlessLoop(its, 0)

----------------------------------------------------------------------------
(* remove_passwordless_item *)

\* The condition of line 26, which Python reads as (A and B) or C.
PasswordlessCond(item) ==
    IF Has(item, "login")
    THEN IF ~Has(item.login, "password") THEN "KeyError"
         ELSE IF item.login.password = None THEN "remove"
         ELSE "keep"
    ELSE "KeyError"

RECURSIVE PasswordlessLoop(_, _)
PasswordlessLoop(its, i) ==
    IF i >= Len(its) THEN [items |-> its, exc |-> "none"]
    ELSE LET c == PasswordlessCond(its[i + 1]) IN
         IF c = "KeyError" THEN [items |-> its, exc |-> "KeyError"]
         ELSE IF c = "remove" THEN PasswordlessLoop(ListRemove(its, its[i + 1]), i + 1)
         ELSE PasswordlessLoop(its, i + 1)

remove_passwordless_item(its) == PasswordlessLoop(its, 0)

----------------------------------------------------------------------------
(* remove_uriless_item *)

\* uri.get("uri") is truthy: the key is there, not null, not empty.
UriTruthy(u) == Has(u, "uri") /\ u.uri # None /\ u.uri # ""

\* The condition of line 36.
HasUris(item) ==
    /\ Has(item, "login")
    /\ Has(item.login, "uris")
    /\ item.login.uris # <<>>

\* Lines 37-38: the item after its uris were filtered in place.
StripUris(item) ==
    IF HasUris(item)
    THEN [item EXCEPT !.login.uris = SelectSeq(item.login.uris, UriTruthy)]
    ELSE item

\* Lines 39-42: the item goes to items_to_remove.
ToRemove(item) == ~HasUris(item) \/ StripUris(item).login.uris = <<>>

\* The second loop, lines 44-46.
RECURSIVE RemoveAll(_, _)
RemoveAll(its, rem) ==
    IF rem = <<>> THEN its
    ELSE RemoveAll(ListRemove(its, Head(rem)), Tail(rem))

\* remove_uriless_item removing during its scan, as the other two filters do.
RECURSIVE UrilessLiveLoop(_, _)
UrilessLiveLoop(its, i) ==
    IF i >= Len(its) THEN [items |-> its, exc |-> "none"]
    ELSE LET it == StripUris(its[i + 1])
             cur == [its EXCEPT ![i + 1] = it]
         IN  IF ToRemove(it) THEN UrilessLiveLoop(ListRemove(cur, it), i + 1)
             ELSE UrilessLiveLoop(cur, i + 1)

remove_uriless_item_live(its) == UrilessLiveLoop(its, 0)

remove_uriless_item(its) ==
    LET stripped == [i \in 1..Len(its) |-> StripUris(its[i])]
        items_to_remove == SelectSeq(stripped, ToRemove)
    IN  [items |-> RemoveAll(stripped, items_to_remove), exc |-> "none"]

----------------------------------------------------------------------------
(* find_items_with_duplicates *)

\* What item["login"]["uris"][0]["uri"] raises, or "none".
FirstUriExc(item) ==
    IF ~Has(item, "login") THEN "KeyError"
    ELSE IF ~Has(item.login, "uris") THEN "KeyError"
    ELSE IF item.login.uris = <<>> THEN "IndexError"
    ELSE IF ~Has(item.login.uris[1], "uri") THEN "KeyError"
    ELSE "none"

\* The condition of lines 57-60 for the pair (item, other_item), evaluated
\* left to right with short circuit: "yes", "no", or the exception raised.
DupCond(item, other) ==
    IF ~(item # other) THEN "no"
    ELSE IF FirstUriExc(item) # "none" THEN FirstUriExc(item)
    ELSE IF FirstUriExc(other) # "none" THEN FirstUriExc(other)
    ELSE IF item.login.uris[1].uri # other.login.uris[1].uri THEN "no"
    ELSE IF ~Has(item.login, "username") \/ ~Has(other.login, "username") THEN "KeyError"
    ELSE IF item.login.username # other.login.username THEN "no"
    ELSE IF ~Has(item.login, "password") \/ ~Has(other.login, "password") THEN "KeyError"
    ELSE IF item.login.password # other.login.password THEN "no"
    ELSE "yes"

\* The comprehension of lines 53-61: k counts the (item, other_item)
\* combinations already tried, item in the outer loop, other_item inside.
RECURSIVE FindLoop(_, _, _)
FindLoop(its, k, acc) ==
    IF k >= Len(its) * Len(its) THEN [pairs |-> acc, exc |-> "none"]
    ELSE LET i == (k \div Len(its)) + 1
             j == (k % Len(its)) + 1
             c == DupCond(its[i], its[j])
         IN  IF c = "yes" THEN FindLoop(its, k + 1, Append(acc, <<i, j>>))
             ELSE IF c = "no" THEN FindLoop(its, k + 1, acc)
             ELSE [pairs |-> <<>>, exc |-> c]

find_items_with_duplicates(its) == FindLoop(its, 0, <<>>)

----------------------------------------------------------------------------
(* merge_uris_of_items *)

\* Line 66 looking up only one of the two ids.
MergeGuardB(a_id, b_id, reg) == b_id \notin reg

MergeGuardA(a_id, b_id, reg) == a_id \notin reg

\* The condition of line 66: the call does anything at all.
MergeGuard(a_id, b_id, reg) == a_id \notin reg /\ b_id \notin reg

\* Position of the key k in the list of keys ks, 0 when it is not there.
RECURSIVE KeyPos(_, _)
KeyPos(ks, k) ==
    IF ks = <<>> THEN 0
    ELSE IF Head(ks) = k THEN 1
    ELSE LET p == KeyPos(Tail(ks), k) IN IF p = 0 THEN 0 ELSE p + 1

\* {uri["uri"]: uri for uri in uris}: a dict keeps its keys in the order of
\* their first insertion, and a later entry with a key already in the dict
\* replaces the value and keeps the key's place.  keys and vals are the
\* dict so far.
RECURSIVE DictLoop(_, _, _)
DictLoop(uris, keys, vals) ==
    IF uris = <<>> THEN vals
    ELSE LET u == Head(uris)
             p == KeyPos(keys, u.uri)
         IN  IF p = 0
             THEN DictLoop(Tail(uris), Append(keys, u.uri), Append(vals, u))
             ELSE DictLoop(Tail(uris), keys, [vals EXCEPT ![p] = u])

\* Line 76 without the dict: every entry is kept.
DictByUriAll(uris) == uris

\* Line 76 keeping the first entry of each uri string instead of the last.
RECURSIVE FirstLoop(_, _, _)
FirstLoop(uris, keys, vals) ==
    IF uris = <<>> THEN vals
    ELSE LET u == Head(uris) IN
         IF KeyPos(keys, u.uri) = 0
         THEN FirstLoop(Tail(uris), Append(keys, u.uri), Append(vals, u))
         ELSE FirstLoop(Tail(uris), keys, vals)

DictByUriFirst(uris) == FirstLoop(uris, <<>>, <<>>)

\* Line 76: list({uri["uri"]: uri for uri in uris}.values()).
DictByUri(uris) == DictLoop(uris, <<>>, <<>>)

\* Lines 68-69 subscript uri["uri"] on every entry of both lists.
MergeExc(item_a, item_b) ==
    IF \E it \in {item_a, item_b} :
           \/ ~Has(it, "login")
           \/ ~Has(it.login, "uris")
           \/ \E n \in 1..Len(it.login.uris) : ~Has(it.login.uris[n], "uri")
    THEN "KeyError"
    ELSE "none"

\* Lines 75-79 run whatever the answer.
MergeEffectAlways(its, reg, a, b, merge_answer) ==
    [items |-> [its EXCEPT ![a].login.uris =
                   DictByUri(its[a].login.uris \o its[b].login.uris)],
     merged |-> reg \cup {its[b].id}]

\* Lines 74-79: the items and the registry after the answer to the prompt;
\* a and b are the positions of item_a and item_b in the item list.
MergeEffect(its, reg, a, b, merge_answer) ==
    IF merge_answer
    THEN [items |-> [its EXCEPT ![a].login.uris =
                        DictByUri(its[a].login.uris \o its[b].login.uris)],
          merged |-> reg \cup {its[b].id}]
    ELSE [items |-> its, merged |-> reg]

----------------------------------------------------------------------------
(* State machine *)

\* The driver starts on the document read from the file: any list of at
\* most MaxItems items.
Init ==
    /\ \E n \in 0..MaxItems : \E d \in [1..n -> Bodies] : items = MkDoc(d)
    /\ merged = {}
    /\ pc = "userless"
    /\ exc = "none"
    /\ dups = <<>>
    /\ idx = 0
    /\ asked = <<>>

\* One filter call data = f(data) at position from; the driver goes on at to
\* unless the call raised.
RunFilter(r, from, to) ==
    /\ pc = from
    /\ exc = "none"
    /\ items' = r.items
    /\ exc' = r.exc
    /\ pc' = IF r.exc = "none" THEN to ELSE from
    /\ UNCHANGED <<merged, dups, idx, asked>>

\* Lines 91, 95, 99 of the driver.
Userless == RunFilter(remove_userless_item(items), "userless", "passwordless")
Passwordless == RunFilter(remove_passwordless_item(items), "passwordless", "uriless")
Uriless == RunFilter(remove_uriless_item(items), "uriless", "find")

\* Line 103.
Find ==
    /\ pc = "find"
    /\ exc = "none"
    /\ LET r == find_items_with_duplicates(items) IN
        /\ dups' = r.pairs
        /\ exc' = r.exc
        /\ pc' = IF r.exc = "none" THEN "merge" ELSE "find"
    /\ idx' = 0
    /\ UNCHANGED <<items, merged, asked>>

\* One turn of the loop of lines 104-105: merge_uris_of_items(*duplicate)
\* for the next pair, with the answer the user gives if asked.
MergeCall ==
    /\ pc = "merge"
    /\ exc = "none"
    /\ idx < Len(dups)
    /\ LET a == dups[idx + 1][1]
           b == dups[idx + 1][2]
       IN  IF ~MergeGuard(items[a].id, items[b].id, merged)
           THEN UNCHANGED <<items, merged, asked, exc>>
           ELSE IF MergeExc(items[a], items[b]) # "none"
           THEN exc' = MergeExc(items[a], items[b]) /\ UNCHANGED <<items, merged, asked>>
           ELSE \E merge_answer \in BOOLEAN :
                    LET r == MergeEffect(items, merged, a, b, merge_answer) IN
                    /\ asked' = Append(asked, [pair |-> idx + 1, a |-> items[a].id,
                                               b |-> items[b].id, answer |-> merge_answer])
                    /\ items' = r.items
                    /\ merged' = r.merged
                    /\ exc' = "none"
    /\ idx' = idx + 1
    /\ UNCHANGED <<pc, dups>>

\* The loop is over: line 107.
Finish ==
    /\ pc = "merge"
    /\ exc = "none"
    /\ idx = Len(dups)
    /\ pc' = "done"
    /\ UNCHANGED <<items, merged, exc, dups, idx, asked>>

Next == Userless \/ Passwordless \/ Uriless \/ Find \/ MergeCall \/ Finish

Spec == Init /\ [][Next]_vars

----------------------------------------------------------------------------
(* Each filter called on its own, on any document *)

InitCall ==
    /\ \E n \in 0..MaxItems : \E d \in [1..n -> Bodies] : items = MkDoc(d)
    /\ merged = {}
    /\ pc \in {"call_userless", "call_passwordless", "call_uriless"}
    /\ exc = "none"
    /\ dups = <<>>
    /\ idx = 0
    /\ asked = <<>>

CallUserless ==
    RunFilter(remove_userless_item(items), "call_userless", "returned_userless")
CallPasswordless ==
    RunFilter(remove_passwordless_item(items), "call_passwordless", "returned_passwordless")
CallUriless ==
    RunFilter(remove_uriless_item(items), "call_uriless", "returned_uriless")

NextCall == CallUserless \/ CallPasswordless \/ CallUriless

SpecCall == InitCall /\ [][NextCall]_vars

----------------------------------------------------------------------------
(* The three filters run in the driver's order, then a second time on the *)
(* document they left                                                     *)

UrilessThenAgain == RunFilter(remove_uriless_item(items), "uriless", "userless2")
Userless2 == RunFilter(remove_userless_item(items), "userless2", "passwordless2")
Passwordless2 == RunFilter(remove_passwordless_item(items), "passwordless2", "uriless2")
Uriless2 == RunFilter(remove_uriless_item(items), "uriless2", "filtered_twice")

NextRerun ==
    Userless \/ Passwordless \/ UrilessThenAgain \/ Userless2 \/ Passwordless2 \/ Uriless2

SpecRerun == Init /\ [][NextRerun]_vars

----------------------------------------------------------------------------
(* Properties *)

Range(s) == { s[n] : n \in 1..Len(s) }

\* The URI strings of a list of URI entries.
UriStrings(uris) == { uris[n].uri : n \in 1..Len(uris) }

\* C1: once the three filters have run in order and completed, running them
\* again removes nothing: no step of the second run changes the item list.
C1_SecondRunRemovesNothing ==
    [][(pc \in {"userless2", "passwordless2", "uriless2"}) => (items' = items)]_vars

\* An item the userless filter is to remove: a login whose username is
\* missing, null or empty.
IsUserless(item) ==
    /\ Has(item, "login")
    /\ (~Has(item.login, "username") \/ item.login.username \in {None, ""})

\* C2: remove_userless_item completes on every document and leaves no item
\* that has a login without a username, wherever the item stood in the list.
C2_UserlessAllRemoved ==
    /\ pc = "call_userless" => exc = "none"
    /\ pc = "returned_userless" => \A n \in 1..Len(items) : ~IsUserless(items[n])

\* An item the passwordless filter is to remove: a login whose password is
\* missing or null.
IsPasswordless(item) ==
    /\ Has(item, "login")
    /\ (~Has(item.login, "password") \/ item.login.password = None)

NoLogin(item) == ~Has(item, "login")

\* C3: remove_passwordless_item raises nothing, removes every item whose
\* login has no password, and leaves the items without a login where they
\* were.
C3_PasswordlessAsymmetry ==
    [][(pc = "call_passwordless") =>
          (/\ exc' = "none"
           /\ \A n \in 1..Len(items') : ~IsPasswordless(items'[n])
           /\ SelectSeq(items', NoLogin) = SelectSeq(items, NoLogin))]_vars

\* C4: after remove_uriless_item every item left has a login with a
\* non-empty uris list whose entries all have a non-empty uri string, so
\* every item without one is gone, wherever it stood; the call never raises.
C4_UrilessAllValid ==
    /\ pc = "call_uriless" => exc = "none"
    /\ pc = "returned_uriless" =>
          \A n \in 1..Len(items) :
              /\ Has(items[n], "login")
              /\ Has(items[n].login, "uris")
              /\ Len(items[n].login.uris) > 0
              /\ \A m \in 1..Len(items[n].login.uris) :
                     /\ Has(items[n].login.uris[m], "uri")
                     /\ items[n].login.uris[m].uri \notin {None, ""}

\* C4 happens: the call returned, removed the first two items of the
\* document and kept a later one.
C4_Witness ==
    /\ pc = "returned_uriless"
    /\ Len(items) >= 1
    /\ items[1].id >= 3

\* The value of a login field, or "absent" when the login has no such key.
Field(item, key) == IF Has(item.login, key) THEN item.login[key] ELSE "absent"

\* Two items with the same first URI string, username and password.
SameCredentials(a, b) ==
    /\ a.login.uris[1].uri = b.login.uris[1].uri
    /\ Field(a, "username") = Field(b, "username")
    /\ Field(a, "password") = Field(b, "password")

\* C5: on the filtered document find_items_with_duplicates returns, and the
\* pair (A, B) is in its result exactly when A and B are different items
\* with the same first URI string, username and password.
C5_FindAllPairs ==
    /\ pc = "find" => exc = "none"
    /\ (pc = "merge" /\ idx = 0) =>
          \A i, j \in 1..Len(items) :
              <<i, j>> \in Range(dups) <=>
                  (i # j /\ SameCredentials(items[i], items[j]))

\* The step is a call of merge_uris_of_items that asked the user.
Prompts == pc = "merge" /\ idx' = idx + 1 /\ Len(asked') = Len(asked) + 1

\* The items of the pair the loop is at.
ItemA == dups[idx + 1][1]
ItemB == dups[idx + 1][2]

\* C6: a merge the user accepts leaves in A.login.uris exactly the URI
\* strings A and B held, each once, and puts B.id in the registry.
C6_MergeUnion ==
    [][(Prompts /\ asked'[Len(asked')].answer) =>
          /\ UriStrings(items'[ItemA].login.uris) =
                 UriStrings(items[ItemA].login.uris) \cup UriStrings(items[ItemB].login.uris)
          /\ Cardinality(UriStrings(items'[ItemA].login.uris)) =
                 Len(items'[ItemA].login.uris)
          /\ items[ItemB].id \in merged']_vars

\* The item of the list with the id i.
ItemById(i) == CHOOSE it \in Range(items) : it.id = i

\* C6 happens: an accepted merge gave A a second URI string.
C6_Witness ==
    \E n \in 1..Len(asked) :
        /\ asked[n].answer
        /\ asked[n].b \in merged
        /\ UriStrings(ItemById(asked[n].a).login.uris) = {"x", "y"}
        /\ UriStrings(ItemById(asked[n].b).login.uris) = {"x", "y"}

\* C7: a merge the user declines changes neither the items nor the registry.
C7_DeclineChangesNothing ==
    [][(Prompts /\ ~asked'[Len(asked')].answer) =>
          items' = items /\ merged' = merged /\ dups' = dups]_vars

\* C7 happens: the user declined the merge of two items whose URI lists
\* differ.
C7_Witness ==
    \E n \in 1..Len(asked) :
        /\ ~asked[n].answer
        /\ ItemById(asked[n].a).login.uris # ItemById(asked[n].b).login.uris

\* C8: an id never leaves the registry, and a call with an item whose id is
\* in the registry, in either position, asks nothing and changes nothing.
C8_RegisteredIsSkipped ==
    [][(merged \subseteq merged') /\
       ((pc = "merge" /\ idx < Len(dups) /\
         (items[ItemA].id \in merged \/ items[ItemB].id \in merged)) =>
            (asked' = asked /\ items' = items /\ merged' = merged))]_vars

\* The loop has asked about the k-th pair of dups, and the answer.
Prompted(k) == \E n \in 1..Len(asked) : asked[n].pair = k
Accepted(k) == \E n \in 1..Len(asked) : asked[n].pair = k /\ asked[n].answer
Declined(k) == \E n \in 1..Len(asked) : asked[n].pair = k /\ ~asked[n].answer
Skipped(k) == k <= idx /\ ~Prompted(k)

\* C8 happens: calls were skipped with an item of the registry in the first
\* position and with one in the second position.
C8_Witness ==
    /\ pc = "merge"
    /\ \E k \in 1..idx : Skipped(k) /\ items[dups[k][1]].id \in merged
                                     /\ items[dups[k][2]].id \notin merged
    /\ \E k \in 1..idx : Skipped(k) /\ items[dups[k][2]].id \in merged
                                     /\ items[dups[k][1]].id \notin merged

\* The first and the last entry of a list with the uri string s.
FirstWith(uris, s) == uris[CHOOSE n \in 1..Len(uris) :
                              uris[n].uri = s /\ \A m \in 1..(n - 1) : uris[m].uri # s]
LastWith(uris, s) == uris[CHOOSE n \in 1..Len(uris) :
                             uris[n].uri = s /\ \A m \in (n + 1)..Len(uris) : uris[m].uri # s]

\* C9 as claimed: after an accepted merge the entry A keeps for a URI string
\* that A and B both held is the first one of A.uris + B.uris, A's copy.
C9_FirstOccurrenceWins ==
    [][(Prompts /\ asked'[Len(asked')].answer) =>
          \A s \in UriStrings(items[ItemA].login.uris) \cap UriStrings(items[ItemB].login.uris) :
              FirstWith(items[ItemA].login.uris \o items[ItemB].login.uris, s)
                  \in Range(items'[ItemA].login.uris)]_vars

\* C9 as amended: after an accepted merge the entry A keeps for a URI string
\* that A and B both held is the last one of A.uris + B.uris, B's last copy
\* with B's attributes.
C9_LastOccurrenceWins ==
    [][(Prompts /\ asked'[Len(asked')].answer) =>
          \A s \in UriStrings(items[ItemA].login.uris) \cap UriStrings(items[ItemB].login.uris) :
              /\ LastWith(items[ItemA].login.uris \o items[ItemB].login.uris, s)
                     \in Range(items'[ItemA].login.uris)
              /\ LastWith(items[ItemB].login.uris, s)
                     \in Range(items'[ItemA].login.uris)]_vars

\* C9 happens: the one merge so far put <<X1, Y0>> and B's <<X0>> together,
\* and A holds B's X0 where its own X1 was.
C9_Witness ==
    /\ Len(asked) = 1
    /\ asked[1].answer
    /\ ItemById(asked[1].b).login.uris = <<X0>>
    /\ ItemById(asked[1].a).login.uris = <<X0, Y0>>

\* The j-th pair of dups is the k-th one reversed, later in the list.
Reverse(k, j) == k < j /\ dups[j] = <<dups[k][2], dups[k][1]>>

\* C10 as claimed: a declined pair (A, B) is asked again as (B, A), and
\* (B, A) is skipped only if the user accepted (A, B).
C10_SkippedOnlyIfAccepted ==
    pc \in {"merge", "done"} =>
        \A k, j \in 1..idx :
            Reverse(k, j) =>
                /\ Declined(k) => Prompted(j)
                /\ Skipped(j) => Accepted(k)

\* An accepted merge before the j-th call put an item of the j-th pair in
\* the registry; from is the first call looked at.
MergedAway(from, j) ==
    \E m \in from..(j - 1) : Accepted(m) /\ dups[m][2] \in {dups[j][1], dups[j][2]}

\* C10 as amended: a declined pair (A, B) is asked again as (B, A) unless a
\* merge accepted in between had A or B as its second item, and (B, A) is
\* skipped exactly when a merge accepted before it had A or B as its second
\* item.
C10_SkippedIffMergedAway ==
    pc \in {"merge", "done"} =>
        \A k, j \in 1..idx :
            Reverse(k, j) =>
                /\ (Declined(k) /\ ~MergedAway(k + 1, j)) => Prompted(j)
                /\ Skipped(j) <=> MergedAway(1, j)

\* C10 happens: the user declined (A, B), then accepted a merge of another
\* pair, and (B, A) was skipped.
C10_Witness ==
    /\ pc \in {"merge", "done"}
    /\ \E k, j \in 1..idx : Reverse(k, j) /\ Declined(k) /\ Skipped(j)
====
